---------------------------- MODULE Spec2Model ----------------------------
(***************************************************************************)
(* graphx: an identifier index (Hash), an adjacency-list store (Graph)     *)
(* and a breadth-first traversal (BFS) over it, modelled from graphx.py.   *)
(***************************************************************************)
EXTENDS Integers, Sequences, FiniteSets, TLC

(***************************************************************************)
(* Bounds of the model and constants of the program.                       *)
(***************************************************************************)

\* Largest number of add_edge calls in one behaviour.
MaxEdges == 2

\* Largest number of add_edge calls in a behaviour of the queue's program:
\* three edges are the fewest with which the queue holds two distances.
MaxQueueEdges == 3

\* Graph.N: the length of adj, visited and min_dist_from_source.
N == 5000000

\* The default of add_edge's weight argument.
DefaultWeight == 0

\* The weights passed to add_edge: the default and one other.
Weights == {DefaultWeight, 5}

\* The capacities passed to Graph(n, ...).
Capacities == {2}

(***************************************************************************)
(* Python values passed as node keys.  An int x is IntKey(x); a tuple is   *)
(* TupleKey(t), t the sequence of its components, each a value of this     *)
(* kind again, so that (0, 1) is TupleKey(<<IntKey(0), IntKey(1)>>); a     *)
(* value that is neither (a str) is OtherKey; None is NoneKey.             *)
(***************************************************************************)

IntKey(x) == [kind |-> "int", val |-> <<x>>]

TupleKey(t) == [kind |-> "tuple", val |-> t]

OtherKey == [kind |-> "other", val |-> <<>>]

NoneKey == [kind |-> "none", val |-> <<>>]

\* The tuple of the integers t.
IntTuple(t) == TupleKey([i \in DOMAIN t |-> IntKey(t[i])])

\* Keys of the three accepted shapes.  IntKey(0), IntTuple(<<0, 0>>) and
\* IntTuple(<<0, 0, 0>>) are one node; so are IntTuple(<<0, 1>>) and
\* IntTuple(<<0, 1, 0>>), and IntKey(1) and IntTuple(<<1, 0>>).
ValidKeys ==
    {IntKey(0), IntKey(1),
     IntTuple(<<0, 0>>), IntTuple(<<0, 1>>), IntTuple(<<1, 0>>),
     IntTuple(<<0, 0, 0>>), IntTuple(<<0, 1, 0>>), IntTuple(<<0, 0, 1>>)}

\* Keys of a rejected shape: tuples of length 1 and 4, and a non-tuple.
InvalidKeys == {IntTuple(<<0>>), IntTuple(<<0, 0, 0, 0>>), OtherKey}

Keys == ValidKeys \cup InvalidKeys

\* The keys of the store's program: three nodes, one of them under two
\* shapes, and two rejected keys.
StoreKeys ==
    {IntKey(0), IntKey(1), IntTuple(<<0, 1>>), IntTuple(<<0, 0, 0>>),
     IntTuple(<<0, 0, 0, 0>>), OtherKey}

\* The keys of the traversal's program: two scalars and a pair.
NodeKeys == {IntKey(0), IntKey(1), IntTuple(<<0, 1>>)}

\* The keys of the queue's program, four nodes, and the add_edge calls it
\* makes: a diamond with a chord and a back edge.
QueueKeys == NodeKeys \cup {IntTuple(<<0, 0, 1>>)}

QueueEdges ==
    {<<IntKey(0), IntKey(1)>>, <<IntKey(0), IntTuple(<<0, 1>>)>>,
     <<IntKey(1), IntTuple(<<0, 0, 1>>)>>,
     <<IntTuple(<<0, 1>>), IntTuple(<<0, 0, 1>>)>>,
     <<IntKey(1), IntTuple(<<0, 1>>)>>,
     <<IntTuple(<<0, 0, 1>>), IntKey(0)>>}

\* The arguments (u, v, k) of the calls of Graph.hash, NoneKey for an
\* argument left at its default: one call for each branch on integers, a
\* call with k given and v left out, a call whose u is a tuple and whose v
\* is a str, and a call with no argument given.
GraphHashArgs ==
    {<<IntKey(0), NoneKey, NoneKey>>,
     <<IntKey(0), IntKey(1), NoneKey>>,
     <<IntKey(0), NoneKey, IntKey(1)>>,
     <<IntTuple(<<0, 1>>), OtherKey, NoneKey>>,
     <<NoneKey, NoneKey, NoneKey>>}

(***************************************************************************)
(* Hash.hash                                                               *)
(***************************************************************************)

\* hash_key with a scalar placed in the last component of the triple.
hash_key_scalar_last(x) ==
    IF x.kind = "int" THEN [err |-> "none", key |-> <<IntKey(0), IntKey(0), x>>]
    ELSE IF x.kind = "tuple" THEN
        IF Len(x.val) = 2 THEN [err |-> "none", key |-> <<x.val[1], x.val[2], IntKey(0)>>]
        ELSE IF Len(x.val) = 3 THEN [err |-> "none", key |-> x.val]
        ELSE [err |-> "ValueError", key |-> <<>>]
    ELSE [err |-> "TypeError", key |-> <<>>]

\* Lines 13-23: the key looked up for x, or the exception raised.
hash_key(x) ==
    IF x.kind = "int" THEN [err |-> "none", key |-> <<x, IntKey(0), IntKey(0)>>]
    ELSE IF x.kind = "tuple" THEN
        IF Len(x.val) = 2 THEN [err |-> "none", key |-> <<x.val[1], x.val[2], IntKey(0)>>]
        ELSE IF Len(x.val) = 3 THEN [err |-> "none", key |-> x.val]
        ELSE [err |-> "ValueError", key |-> <<>>]
    ELSE [err |-> "TypeError", key |-> <<>>]

\* next_id one short of the size: the last id is handed out again.
next_id_reused(table) ==
    IF DOMAIN table = {} THEN 0 ELSE Cardinality(DOMAIN table) - 1

\* next_id counting from one.
next_id_from_one(table) == Cardinality(DOMAIN table) + 1

\* Line 26: the id given to a key that is not in the table.
next_id(table) == Cardinality(DOMAIN table)

\* Lines 25-26: the table after the key has been looked up.
hash_insert(table, key) ==
    IF key \notin DOMAIN table
    THEN [k \in DOMAIN table \cup {key} |->
            IF k = key THEN next_id(table) ELSE table[k]]
    ELSE table

\* Hash.hash(x) on the table: the exception raised, the table afterwards
\* and the id returned.
hash(table, x) ==
    LET hk == hash_key(x) IN
    IF hk.err # "none"
    THEN [err |-> hk.err, table |-> table, id |-> -1]
    ELSE LET t == hash_insert(table, hk.key) IN
         [err |-> "none", table |-> t, id |-> t[hk.key]]

\* Every normalized triple a valid key of the model can produce.
Triples == {hash_key(x).key : x \in ValidKeys}

\* The dense ids the index can hand out within the model's keys; they are
\* the part of the N-element arrays that the model tracks.
Ids == 0..(Cardinality(Triples) - 1)

(***************************************************************************)
(* Graph.hash                                                              *)
(***************************************************************************)

\* Lines 52-57: the value Graph.hash(u, v, k) passes to Hash.hash.
graph_hash_arg(u, v, k) ==
    IF k.kind # "none" THEN TupleKey(<<u, v, k>>)
    ELSE IF v.kind # "none" THEN TupleKey(<<u, v>>)
    ELSE u

\* Graph.hash(u, v, k) on the table: the exception raised, the table
\* afterwards and the id returned.
graph_hash(table, u, v, k) == hash(table, graph_hash_arg(u, v, k))

(***************************************************************************)
(* Graph                                                                   *)
(***************************************************************************)

\* Line 82: self.adj[u].append((v, weight)); IndexError when u is outside
\* the list.
add_edge_weighted_undirected(g, u, v, weight) ==
    IF g.err # "none" THEN g
    ELSE IF u >= N THEN [g EXCEPT !.err = "IndexError"]
    ELSE [g EXCEPT !.adj = [g.adj EXCEPT ![u] = Append(@, <<v, weight>>)]]

\* add_edge_internal with the test of is_directed inverted.
add_edge_internal_inverted(g, directed, u, v, weight) ==
    LET g1 == add_edge_weighted_undirected(g, u, v, weight) IN
    IF directed
    THEN add_edge_weighted_undirected(g1, v, u, weight)
    ELSE g1

\* add_edge_internal whose second append repeats the first.
add_edge_internal_repeated(g, directed, u, v, weight) ==
    LET g1 == add_edge_weighted_undirected(g, u, v, weight) IN
    IF ~directed
    THEN add_edge_weighted_undirected(g1, u, v, weight)
    ELSE g1

\* add_edge_internal whose mirrored entry carries the default weight.
add_edge_internal_mirror_unweighted(g, directed, u, v, weight) ==
    LET g1 == add_edge_weighted_undirected(g, u, v, weight) IN
    IF ~directed
    THEN add_edge_weighted_undirected(g1, v, u, DefaultWeight)
    ELSE g1

\* Lines 76-78.
add_edge_internal(g, directed, u, v, weight) ==
    LET g1 == add_edge_weighted_undirected(g, u, v, weight) IN
    IF ~directed
    THEN add_edge_weighted_undirected(g1, v, u, weight)
    ELSE g1

\* Graph.add_edge(u, v, weight) on the store: the exception raised, the
\* index and the adjacency lists afterwards.
add_edge(table, adjacency, directed, u, v, weight) ==
    LET hu == hash(table, u) IN
    IF hu.err # "none"
    THEN [err |-> hu.err, table |-> hu.table, adj |-> adjacency]
    ELSE LET hv == hash(hu.table, v) IN
         IF hv.err # "none"
         THEN [err |-> hv.err, table |-> hv.table, adj |-> adjacency]
         ELSE LET g == add_edge_internal([err |-> "none", adj |-> adjacency],
                                         directed, hu.id, hv.id, weight) IN
              [err |-> g.err, table |-> hv.table, adj |-> g.adj]

(***************************************************************************)
(* BFS                                                                     *)
(***************************************************************************)

\* clear with 0 for the distance of an unreached id.
clear_to_zero(b) == [visited |-> [i \in Ids |-> FALSE], dist |-> [i \in Ids |-> 0]]

\* BFS.clear() on the arrays b = [visited, dist]: both are built anew,
\* whatever they held.
clear(b) == [visited |-> [i \in Ids |-> FALSE], dist |-> [i \in Ids |-> -1]]

\* Lines 96-98: the arrays BFS(graph) leaves: empty lists, then clear().
bfs_init == clear([visited |-> <<>>, dist |-> <<>>])

\* for_adj with the weight of the entry as the length of the edge.
RECURSIVE for_adj_weighted(_, _, _)
for_adj_weighted(entries, cur_node, b) ==
    IF entries = <<>> THEN b
    ELSE LET adj_node == Head(entries)[1] IN
         IF adj_node >= N THEN [b EXCEPT !.err = "IndexError"]
         ELSE IF ~b.visited[adj_node]
         THEN for_adj_weighted(Tail(entries), cur_node,
                      [b EXCEPT !.visited[adj_node] = TRUE,
                                !.dist[adj_node] = b.dist[cur_node] + Head(entries)[2],
                                !.q = Append(@, adj_node)])
         ELSE for_adj_weighted(Tail(entries), cur_node, b)

\* for_adj that marks and enqueues a neighbour without setting its distance.
RECURSIVE for_adj_no_dist(_, _, _)
for_adj_no_dist(entries, cur_node, b) ==
    IF entries = <<>> THEN b
    ELSE LET adj_node == Head(entries)[1] IN
         IF adj_node >= N THEN [b EXCEPT !.err = "IndexError"]
         ELSE IF ~b.visited[adj_node]
         THEN for_adj_no_dist(Tail(entries), cur_node,
                      [b EXCEPT !.visited[adj_node] = TRUE,
                                !.q = Append(@, adj_node)])
         ELSE for_adj_no_dist(Tail(entries), cur_node, b)

\* for_adj that puts a neighbour at the front of the queue.
RECURSIVE for_adj_appendleft(_, _, _)
for_adj_appendleft(entries, cur_node, b) ==
    IF entries = <<>> THEN b
    ELSE LET adj_node == Head(entries)[1] IN
         IF adj_node >= N THEN [b EXCEPT !.err = "IndexError"]
         ELSE IF ~b.visited[adj_node]
         THEN for_adj_appendleft(Tail(entries), cur_node,
                      [b EXCEPT !.visited[adj_node] = TRUE,
                                !.dist[adj_node] = b.dist[cur_node] + 1,
                                !.q = <<adj_node>> \o @])
         ELSE for_adj_appendleft(Tail(entries), cur_node, b)

\* Lines 149-153: the for loop over the adjacency entries of cur_node, on
\* the traversal state b = [visited, dist, q, err].
RECURSIVE for_adj(_, _, _)
for_adj(entries, cur_node, b) ==
    IF entries = <<>> THEN b
    ELSE LET adj_node == Head(entries)[1] IN
         IF adj_node >= N THEN [b EXCEPT !.err = "IndexError"]
         ELSE IF ~b.visited[adj_node]
         THEN for_adj(Tail(entries), cur_node,
                      [b EXCEPT !.visited[adj_node] = TRUE,
                                !.dist[adj_node] = b.dist[cur_node] + 1,
                                !.q = Append(@, adj_node)])
         ELSE for_adj(Tail(entries), cur_node, b)

\* while_body that reads the front of the queue without removing it.
while_body_peek(adjacency, b) ==
    LET cur_node == Head(b.q) IN
    for_adj(adjacency[cur_node], cur_node, b)

\* Lines 148-153: one iteration of the while loop.
while_body(adjacency, b) ==
    LET cur_node == Head(b.q) IN
    for_adj(adjacency[cur_node], cur_node, [b EXCEPT !.q = Tail(@)])

\* run_start that leaves the source unmarked.
run_start_unmarked(vis, dist, source) ==
    IF source >= N
    THEN [visited |-> vis, dist |-> dist, q |-> <<source>>, err |-> "IndexError"]
    ELSE [visited |-> vis,
          dist |-> [dist EXCEPT ![source] = 0],
          q |-> <<source>>, err |-> "none"]

\* run_start that sets the distance of the source only when the source is
\* unvisited.
run_start_unvisited_only(vis, dist, source) ==
    IF source >= N
    THEN [visited |-> vis, dist |-> dist, q |-> <<source>>, err |-> "IndexError"]
    ELSE [visited |-> [vis EXCEPT ![source] = TRUE],
          dist |-> IF vis[source] THEN dist ELSE [dist EXCEPT ![source] = 0],
          q |-> <<source>>, err |-> "none"]

\* run_start that clears the traversal state first.
run_start_cleared(vis, dist, source) ==
    IF source >= N
    THEN [visited |-> vis, dist |-> dist, q |-> <<source>>, err |-> "IndexError"]
    ELSE LET c == clear([visited |-> vis, dist |-> dist])
         IN  [visited |-> [c.visited EXCEPT ![source] = TRUE],
              dist |-> [c.dist EXCEPT ![source] = 0],
              q |-> <<source>>, err |-> "none"]

\* Lines 143-145: the state before the first iteration.
run_start(vis, dist, source) ==
    IF source >= N
    THEN [visited |-> vis, dist |-> dist, q |-> <<source>>, err |-> "IndexError"]
    ELSE [visited |-> [vis EXCEPT ![source] = TRUE],
          dist |-> [dist EXCEPT ![source] = 0],
          q |-> <<source>>, err |-> "none"]

\* Lines 147-153: the while loop, run until the queue is empty or an
\* exception leaves it.
RECURSIVE while_loop(_, _)
while_loop(adjacency, b) ==
    IF b.err # "none" \/ b.q = <<>> THEN b
    ELSE while_loop(adjacency, while_body(adjacency, b))

\* BFS._run_internal(source) as a function of the arrays.
run_internal(adjacency, vis, dist, source) ==
    while_loop(adjacency, run_start(vis, dist, source))

\* BFS.min_dist(target): the exception raised, the index afterwards and the
\* value returned.
min_dist(table, dist, target) ==
    LET h == hash(table, target) IN
    IF h.err # "none" THEN [err |-> h.err, table |-> h.table, ret |-> -1]
    ELSE IF h.id >= N THEN [err |-> "IndexError", table |-> h.table, ret |-> -1]
    ELSE [err |-> "none", table |-> h.table, ret |-> dist[h.id]]

\* BFS.is_visited(target): the exception raised, the index afterwards and
\* the value returned.
is_visited(table, vis, target) ==
    LET h == hash(table, target) IN
    IF h.err # "none" THEN [err |-> h.err, table |-> h.table, ret |-> FALSE]
    ELSE IF h.id >= N THEN [err |-> "IndexError", table |-> h.table, ret |-> FALSE]
    ELSE [err |-> "none", table |-> h.table, ret |-> vis[h.id]]

(***************************************************************************)
(* State                                                                   *)
(***************************************************************************)

VARIABLES
    hash_table,             \* Hash.hash_table: normalized triple -> id
    n,                      \* Graph.n
    is_directed,            \* Graph.is_directed
    adj,                    \* Graph.adj, on Ids
    min_dist_from_source,   \* BFS.min_dist_from_source, on Ids
    visited,                \* BFS.visited, on Ids
    q,                      \* the deque of a _run_internal in progress
    pc,                     \* "idle", or "running" inside _run_internal
    seen,                   \* history: the triples looked up, first-seen order
    last                    \* history: the last call, its result and exception

vars == <<hash_table, n, is_directed, adj, min_dist_from_source, visited,
          q, pc, seen, last>>

\* The number of adjacency entries stored.
RECURSIVE entries_upto(_, _)
entries_upto(adjacency, i) ==
    IF i < 0 THEN 0 ELSE Len(adjacency[i]) + entries_upto(adjacency, i - 1)

entries(adjacency) == entries_upto(adjacency, Cardinality(Triples) - 1)

\* The record of a call: its arguments, the value returned (-1 when there
\* is none), the exception raised, whether the traversal was Idle when the
\* call was made, and the number of entries the call added to the index.
Call(op, args, ret, err, table) ==
    [op |-> op, args |-> args, ret |-> ret, err |-> err,
     idle |-> visited = bfs_init.visited /\ min_dist_from_source = bfs_init.dist,
     minted |-> Cardinality(DOMAIN table) - Cardinality(DOMAIN hash_table)]

\* seen, after the keys xs have been looked up in order; a key of a
\* rejected shape raises and ends the call.
RECURSIVE see(_, _)
see(s, xs) ==
    IF xs = <<>> THEN s
    ELSE LET hk == hash_key(Head(xs)) IN
         IF hk.err # "none" THEN s
         ELSE IF \E i \in DOMAIN s : s[i] = hk.key THEN see(s, Tail(xs))
         ELSE see(Append(s, hk.key), Tail(xs))

\* Graph(n, is_directed) followed by BFS(graph).
Init ==
    /\ hash_table = [k \in {} |-> 0]
    /\ n \in Capacities
    /\ is_directed \in BOOLEAN
    /\ adj = [i \in Ids |-> <<>>]
    /\ min_dist_from_source = bfs_init.dist
    /\ visited = bfs_init.visited
    /\ q = <<>>
    /\ pc = "idle"
    /\ seen = <<>>
    /\ last = [op |-> "init", args |-> <<>>, ret |-> -1, err |-> "none",
               idle |-> TRUE, minted |-> 0]

\* g.h.hash(x)
HashCall(x) ==
    /\ pc = "idle"
    /\ LET r == hash(hash_table, x) IN
       /\ hash_table' = r.table
       /\ last' = Call("hash", <<x>>, r.id, r.err, r.table)
    /\ seen' = see(seen, <<x>>)
    /\ UNCHANGED <<n, is_directed, adj, min_dist_from_source, visited, q, pc>>

\* g.hash(u, v, k)
GraphHash(u, v, k) ==
    /\ pc = "idle"
    /\ LET r == graph_hash(hash_table, u, v, k) IN
       /\ hash_table' = r.table
       /\ last' = Call("graph_hash", <<u, v, k>>, r.id, r.err, r.table)
    /\ seen' = see(seen, <<graph_hash_arg(u, v, k)>>)
    /\ UNCHANGED <<n, is_directed, adj, min_dist_from_source, visited, q, pc>>

\* g.add_edge(u, v, weight), in a behaviour of at most limit such calls.
AddEdgeWithin(limit, u, v, weight) ==
    /\ pc = "idle"
    /\ entries(adj) < limit * (IF is_directed THEN 1 ELSE 2)
    /\ LET r == add_edge(hash_table, adj, is_directed, u, v, weight) IN
       /\ hash_table' = r.table
       /\ adj' = r.adj
       /\ last' = Call("add_edge", <<u, v, weight>>, -1, r.err, r.table)
    /\ seen' = see(seen, <<u, v>>)
    /\ UNCHANGED <<n, is_directed, min_dist_from_source, visited, q, pc>>

\* g.add_edge(u, v, weight)
AddEdge(u, v, weight) == AddEdgeWithin(MaxEdges, u, v, weight)

\* bfs.clear()
Clear ==
    /\ pc = "idle"
    /\ LET b == clear([visited |-> visited, dist |-> min_dist_from_source]) IN
       /\ visited' = b.visited
       /\ min_dist_from_source' = b.dist
    /\ last' = Call("clear", <<>>, -1, "none", hash_table)
    /\ UNCHANGED <<hash_table, n, is_directed, adj, q, pc, seen>>

\* bfs.run(source), up to the first test of the while loop.
Run(source) ==
    /\ pc = "idle"
    /\ LET h == hash(hash_table, source) IN
       /\ hash_table' = h.table
       /\ IF h.err # "none"
          THEN /\ last' = Call("run", <<source>>, -1, h.err, h.table)
               /\ UNCHANGED <<min_dist_from_source, visited, q, pc>>
          ELSE LET b == run_start(visited, min_dist_from_source, h.id) IN
               /\ visited' = b.visited
               /\ min_dist_from_source' = b.dist
               /\ last' = Call("run", <<source>>, -1, b.err, h.table)
               /\ IF b.err # "none"
                  THEN UNCHANGED <<q, pc>>
                  ELSE q' = b.q /\ pc' = "running"
    /\ seen' = see(seen, <<source>>)
    /\ UNCHANGED <<n, is_directed, adj>>

\* RunStep that removes the entries it iterates over from the store.
RunStep_consuming ==
    /\ pc = "running"
    /\ q # <<>>
    /\ LET b == while_body(adj, [visited |-> visited, dist |-> min_dist_from_source,
                                 q |-> q, err |-> "none"]) IN
       /\ visited' = b.visited
       /\ min_dist_from_source' = b.dist
       /\ IF b.err # "none"
          THEN q' = <<>> /\ pc' = "idle" /\ last' = [last EXCEPT !.err = b.err]
          ELSE /\ q' = b.q
               /\ pc' = IF b.q = <<>> THEN "idle" ELSE "running"
               /\ UNCHANGED last
    /\ adj' = [adj EXCEPT ![Head(q)] = <<>>]
    /\ UNCHANGED <<hash_table, n, is_directed, seen>>

\* One iteration of the while loop of _run_internal; run returns when the
\* iteration leaves the queue empty.
RunStep ==
    /\ pc = "running"
    /\ q # <<>>
    /\ LET b == while_body(adj, [visited |-> visited, dist |-> min_dist_from_source,
                                 q |-> q, err |-> "none"]) IN
       /\ visited' = b.visited
       /\ min_dist_from_source' = b.dist
       /\ IF b.err # "none"
          THEN q' = <<>> /\ pc' = "idle" /\ last' = [last EXCEPT !.err = b.err]
          ELSE /\ q' = b.q
               /\ pc' = IF b.q = <<>> THEN "idle" ELSE "running"
               /\ UNCHANGED last
    /\ UNCHANGED <<hash_table, n, is_directed, adj, seen>>

\* bfs.min_dist(target)
MinDist(target) ==
    /\ pc = "idle"
    /\ LET r == min_dist(hash_table, min_dist_from_source, target) IN
       /\ hash_table' = r.table
       /\ last' = Call("min_dist", <<target>>, r.ret, r.err, r.table)
    /\ seen' = see(seen, <<target>>)
    /\ UNCHANGED <<n, is_directed, adj, min_dist_from_source, visited, q, pc>>

\* bfs.is_visited(target)
IsVisited(target) ==
    /\ pc = "idle"
    /\ LET r == is_visited(hash_table, visited, target) IN
       /\ hash_table' = r.table
       /\ last' = Call("is_visited", <<target>>, r.ret, r.err, r.table)
    /\ seen' = see(seen, <<target>>)
    /\ UNCHANGED <<n, is_directed, adj, min_dist_from_source, visited, q, pc>>

(***************************************************************************)
(* Properties                                                              *)
(***************************************************************************)

\* The normalized triple of a key of an accepted shape: scalar x is
\* (x, 0, 0), pair (x, y) is (x, y, 0), a triple is itself.
NormalTriple(x) ==
    IF x.kind = "int" THEN <<x, IntKey(0), IntKey(0)>>
    ELSE IF Len(x.val) = 2 THEN <<x.val[1], x.val[2], IntKey(0)>>
    ELSE x.val

Size(table) == Cardinality(DOMAIN table)

\* The value that call c of g.h.hash or g.hash passed to Hash.hash.
LookedUp(c) ==
    IF c.op = "graph_hash" THEN graph_hash_arg(c.args[1], c.args[2], c.args[3])
    ELSE c.args[1]

\* The keys of accepted shapes that the index's program looks up.
LookupKeys ==
    ValidKeys \cup
    {x \in {graph_hash_arg(a[1], a[2], a[3]) : a \in GraphHashArgs} :
        hash_key(x).err = "none"}

\* The last call was op and raised nothing.
Returned(op) == last.op = op /\ last.err = "none"

\* The last call was a lookup, direct or through Graph.hash, that raised
\* nothing.
LookupReturned == Returned("hash") \/ Returned("graph_hash")

C3_Dense ==
    /\ {hash_table[k] : k \in DOMAIN hash_table} = 0..(Size(hash_table) - 1)
    /\ Len(seen) = Size(hash_table)
    /\ \A i \in 1..Len(seen) :
          seen[i] \in DOMAIN hash_table /\ hash_table[seen[i]] = i - 1

C3_Step ==
    /\ \A k \in DOMAIN hash_table :
          k \in DOMAIN hash_table' /\ hash_table'[k] = hash_table[k]
    /\ (last'.op \in {"hash", "graph_hash"} /\ last'.err = "none") =>
          LET key == NormalTriple(LookedUp(last')) IN
          IF key \in DOMAIN hash_table
          THEN last'.ret = hash_table[key] /\ hash_table' = hash_table
          ELSE /\ last'.ret = Size(hash_table)
               /\ DOMAIN hash_table' = DOMAIN hash_table \cup {key}
               /\ Size(hash_table') = Size(hash_table) + 1

\* C3: the ids of the index are exactly 0..size-1, the k-th distinct triple
\* ever looked up holds id k-1, and the index is append-only: looking up a
\* present key returns its id and changes nothing, looking up a new key
\* returns the size and adds that one entry, and no key's id ever changes.
C3_IndexAppendOnly == C3_Dense /\ [][C3_Dense' /\ C3_Step]_vars

\* The index holds four triples and the last lookup returned the first id
\* again.
C3_Witness ==
    /\ Returned("hash")
    /\ Size(hash_table) = 4
    /\ last.ret = 0
    /\ last.minted = 0

\* C4: two keys looked up one after the other through the index, in any
\* state, get the same id exactly when they normalize to the same triple;
\* scalar 5, pair (5, 0) and triple (5, 0, 0) get one id, and that id is 0
\* on a fresh index.
C4_SameIdIffSameTriple ==
    /\ \A k1 \in LookupKeys, k2 \in LookupKeys :
          LET r1 == hash(hash_table, k1)
              r2 == hash(r1.table, k2)
          IN  /\ r1.err = "none" /\ r2.err = "none"
              /\ (r1.id = r2.id) <=> (NormalTriple(k1) = NormalTriple(k2))
    /\ LookupReturned =>
          \A k2 \in LookupKeys :
              (hash(hash_table, k2).id = last.ret)
                  <=> (NormalTriple(k2) = NormalTriple(LookedUp(last)))
    /\ LET r1 == hash(hash_table, IntKey(5))
           r2 == hash(r1.table, IntTuple(<<5, 0>>))
           r3 == hash(r2.table, IntTuple(<<5, 0, 0>>))
       IN  /\ r1.id = r2.id /\ r2.id = r3.id
           /\ hash_table = [k \in {} |-> 0] => r1.id = 0

\* A triple-shaped key was looked up after other keys and returned the id
\* its node got when it was first looked up as a scalar or a pair.
C4_Witness ==
    /\ Returned("hash")
    /\ last.args[1] = IntTuple(<<0, 1, 0>>)
    /\ last.minted = 0
    /\ last.ret = 1
    /\ Size(hash_table) >= 3

\* The step is a call add_edge(a, b, w) that raised nothing.
AddEdgeReturned == last'.op = "add_edge" /\ last'.err = "none"

\* The id the index holds for key x after the step.
IdAfter(x) == hash_table'[NormalTriple(x)]

\* The original statement of C5: in a directed store add_edge(a, b, w) adds
\* exactly one entry (id(b), w) at the end of the list of id(a) and no entry
\* to the list of id(b).
C5_Original ==
    [][(AddEdgeReturned /\ is_directed) =>
         LET ia == IdAfter(last'.args[1])
             ib == IdAfter(last'.args[2])
             w  == last'.args[3]
         IN  /\ adj'[ia] = Append(adj[ia], <<ib, w>>)
             /\ Len(adj'[ib]) = Len(adj[ib])]_vars

\* C5, amended: in a directed store add_edge(a, b, w) adds exactly one entry
\* (id(b), w) at the end of the list of id(a) and changes no other list, so
\* the list of id(b) gets no entry when b is another node than a, and gets
\* that one entry, a self-loop, when a and b normalize to the same triple.
C5_DirectedAppendsOne ==
    [][(AddEdgeReturned /\ is_directed) =>
         LET ia == IdAfter(last'.args[1])
             ib == IdAfter(last'.args[2])
             w  == last'.args[3]
         IN  /\ adj'[ia] = Append(adj[ia], <<ib, w>>)
             /\ \A i \in Ids \ {ia} : adj'[i] = adj[i]
             /\ ib # ia => Len(adj'[ib]) = Len(adj[ib])
             /\ ib = ia <=> NormalTriple(last'.args[1]) = NormalTriple(last'.args[2])]_vars

\* A directed store took an edge between two keys of different shapes that
\* are one node, onto a list that already held an entry, and holds an edge
\* between two different nodes as well.
C5_Witness ==
    /\ Returned("add_edge")
    /\ is_directed
    /\ last.args[1] # last.args[2]
    /\ NormalTriple(last.args[1]) = NormalTriple(last.args[2])
    /\ last.args[3] = 5
    /\ LET ia == hash_table[NormalTriple(last.args[1])] IN
       /\ Len(adj[ia]) = 2
       /\ adj[ia][1][1] # ia
       /\ adj[ia][2] = <<ia, 5>>

\* C6: in an undirected store add_edge(a, b, w) appends (id(b), w) to the
\* end of the list of id(a) and (id(a), w) to the end of the list of id(b),
\* both to the one list when a and b are one node, and changes no other
\* list and no entry already stored.
C6_UndirectedAppendsBoth ==
    [][(AddEdgeReturned /\ ~is_directed) =>
         LET ia == IdAfter(last'.args[1])
             ib == IdAfter(last'.args[2])
             w  == last'.args[3]
         IN  /\ \A i \in Ids \ {ia, ib} : adj'[i] = adj[i]
             /\ IF ia # ib
                THEN /\ adj'[ia] = Append(adj[ia], <<ib, w>>)
                     /\ adj'[ib] = Append(adj[ib], <<ia, w>>)
                ELSE adj'[ia] = adj[ia] \o <<(<<ib, w>>), (<<ia, w>>)>>]_vars

\* An undirected store took an edge of weight 5 between two different
\* nodes whose lists both held an entry already.
C6_Witness ==
    /\ Returned("add_edge")
    /\ ~is_directed
    /\ last.args[3] = 5
    /\ LET ia == hash_table[NormalTriple(last.args[1])]
           ib == hash_table[NormalTriple(last.args[2])]
       IN  /\ ia # ib
           /\ Len(adj[ia]) = 2 /\ Len(adj[ib]) = 2
           /\ adj[ia][2] = <<ib, 5>> /\ adj[ib][2] = <<ia, 5>>

\* C2: a store of capacity n holds no adjacency entry at an index >= n and
\* none that refers to an id >= n, and an add_edge call that resolved a key
\* to an id >= n raised an error.
C2_CapacityEnforced ==
    /\ \A i \in Ids : adj[i] # <<>> => i < n
    /\ \A i \in Ids : \A j \in DOMAIN adj[i] : adj[i][j][1] < n
    /\ (/\ last.op = "add_edge"
        /\ last.args[1] \in ValidKeys /\ last.args[2] \in ValidKeys
        /\ \/ hash_table[NormalTriple(last.args[1])] >= n
           \/ hash_table[NormalTriple(last.args[2])] >= n)
       => last.err # "none"

\* C8: an add_edge call that rejects a key of another shape than scalar,
\* pair or triple leaves the index and the adjacency lists as they were.
C8_RejectedCallChangesNothing ==
    [][(last'.op = "add_edge" /\ last'.err \in {"ValueError", "TypeError"}) =>
         hash_table' = hash_table /\ adj' = adj]_vars

\* The ids the adjacency entries of the ids in S refer to.
Succ(adjacency, S) ==
    UNION {{adjacency[u][j][1] : j \in DOMAIN adjacency[u]} : u \in S}

\* The ids that a path of at most k adjacency entries reaches from src.
RECURSIVE Within(_, _, _)
Within(adjacency, src, k) ==
    IF k = 0 THEN {src}
    ELSE LET P == Within(adjacency, src, k - 1) IN P \cup Succ(adjacency, P)

\* The least number of entries on a path from src to t, -1 without a path.
Hops(adjacency, src, t) ==
    IF t \notin Within(adjacency, src, Cardinality(Ids)) THEN -1
    ELSE CHOOSE k \in 0..Cardinality(Ids) :
            /\ t \in Within(adjacency, src, k)
            /\ \A j \in 0..(k - 1) : t \notin Within(adjacency, src, j)

\* run(source) was called on an Idle traversal and has returned.
RanFromIdle == Returned("run") /\ pc = "idle" /\ last.idle

\* The id of the source of the last run.
SourceId == hash_table[NormalTriple(last.args[1])]

\* C1: after run(source) on an Idle traversal, every id reachable from the
\* source is visited with the least number of edges of a path from the
\* source as its distance, and every other id is unvisited with distance -1.
C1_HopDistances ==
    RanFromIdle =>
        \A i \in Ids :
            LET d == Hops(adj, SourceId, i) IN
            /\ visited[i] <=> d # -1
            /\ min_dist_from_source[i] = d

\* A run from Idle returned on a graph with a cycle through the source,
\* which left an id of the index unvisited.
C1_Witness ==
    /\ RanFromIdle
    /\ \E i \in Ids \ {SourceId} :
          /\ min_dist_from_source[i] = 1
          /\ \E j \in DOMAIN adj[i] : adj[i][j][1] = SourceId
    /\ \E k \in DOMAIN hash_table : ~visited[hash_table[k]]

\* C7: right after clear(), called in any state, every id is unvisited
\* with distance -1, is_visited returns false and min_dist -1 for every
\* key, and a run from any source ends as it does on a new traversal.
C7_ClearIsIdle ==
    last.op = "clear" =>
        /\ \A i \in Ids : visited[i] = FALSE /\ min_dist_from_source[i] = -1
        /\ \A k \in NodeKeys :
              /\ is_visited(hash_table, visited, k).ret = FALSE
              /\ min_dist(hash_table, min_dist_from_source, k).ret = -1
        /\ \A k \in NodeKeys :
              LET s == hash(hash_table, k).id
                  r == run_internal(adj, visited, min_dist_from_source, s)
                  f == run_internal(adj, bfs_init.visited, bfs_init.dist, s)
              IN  /\ r.visited = f.visited /\ r.dist = f.dist
                  /\ \A i \in Ids : r.dist[i] = Hops(adj, s, i)

\* clear() was called on a traversal that held the result of a run.
C7_Witness ==
    /\ last.op = "clear"
    /\ ~last.idle
    /\ \E i \in Ids : adj[i] # <<>>

\* C9: a min_dist or is_visited call on a key the index has never held
\* returns -1 or false, and adds exactly one entry to the index.
C9_NewKeyUnreached ==
    [][(/\ last'.op \in {"min_dist", "is_visited"}
        /\ last'.err = "none"
        /\ NormalTriple(last'.args[1]) \notin DOMAIN hash_table) =>
         /\ last'.op = "min_dist" => last'.ret = -1
         /\ last'.op = "is_visited" => last'.ret = FALSE
         /\ Size(hash_table') = Size(hash_table) + 1
         /\ \A k \in DOMAIN hash_table : hash_table'[k] = hash_table[k]]_vars

\* min_dist was called on a new key while the traversal held the result of
\* a run, and returned -1.
C9_Witness ==
    /\ Returned("min_dist")
    /\ last.minted = 1
    /\ last.ret = -1
    /\ ~last.idle

\* The adjacency lists with every weight replaced by w.
Reweigh(adjacency, w) ==
    [i \in Ids |-> [j \in DOMAIN adjacency[i] |-> <<adjacency[i][j][1], w>>]]

\* C10: the visited flags and distances a run from Idle leaves are those it
\* leaves on the store built by the same add_edge calls with any one
\* weight in place of the weights given, so two stores that differ in
\* their weights only get the same flags and distances.
C10_WeightsIgnored ==
    RanFromIdle =>
        \A w \in Weights :
            LET r == run_internal(Reweigh(adj, w), bfs_init.visited,
                                  bfs_init.dist, SourceId)
            IN  r.visited = visited /\ r.dist = min_dist_from_source

\* A run from Idle returned with an id at distance 2 on a store that holds
\* both weights.
C10_Witness ==
    /\ RanFromIdle
    /\ \E i \in Ids : min_dist_from_source[i] = 2
    /\ \A w \in Weights : \E i \in Ids : \E j \in DOMAIN adj[i] : adj[i][j][2] = w

\* run(source) has returned without an exception.
RunReturned == Returned("run") /\ pc = "idle"

C11_SourceAtZero ==
    RunReturned =>
        LET d == min_dist(hash_table, min_dist_from_source, last.args[1])
            v == is_visited(hash_table, visited, last.args[1])
        IN  /\ d.err = "none" /\ d.ret = 0 /\ d.table = hash_table
            /\ v.err = "none" /\ v.ret = TRUE /\ v.table = hash_table

C11_NewSourceAlone ==
    (last'.op = "run" /\ last'.err = "none" /\ last'.minted = 1) =>
        LET s == IdAfter(last'.args[1]) IN
        /\ adj'[s] = <<>>
        /\ \A i \in Ids \ {s} :
              /\ visited'[i] = visited[i]
              /\ min_dist_from_source'[i] = min_dist_from_source[i]

\* C11: right after any run(source), from an Idle traversal or one that
\* holds the result of an earlier run, min_dist(source) is 0 and
\* is_visited(source) is true; when the run minted the id of the source,
\* no step of the run changes the flag or distance of another id.
C11_SourceVisitedAtZero ==
    C11_SourceAtZero /\ [][C11_SourceAtZero' /\ C11_NewSourceAlone]_vars

\* A run returned that minted the id of its source while another id was
\* still visited from an earlier run that was not cleared.
C11_Witness ==
    /\ RunReturned
    /\ ~last.idle
    /\ last.minted = 1
    /\ min_dist_from_source[SourceId] = 0
    /\ \E i \in Ids \ {SourceId} : visited[i] /\ min_dist_from_source[i] = 1

\* The ids that the iterations of the while loop append to the queue, from
\* traversal state b on, over at most k iterations.
RECURSIVE Enqueued(_, _, _)
Enqueued(adjacency, b, k) ==
    IF b.q = <<>> \/ k = 0 THEN <<>>
    ELSE LET c == while_body(adjacency, b)
         IN  SubSeq(c.q, Len(b.q), Len(c.q)) \o Enqueued(adjacency, c, k - 1)

\* The queue after at most k iterations of the while loop from state b.
RECURSIVE QueueAfter(_, _, _)
QueueAfter(adjacency, b, k) ==
    IF b.q = <<>> \/ k = 0 THEN b.q
    ELSE QueueAfter(adjacency, while_body(adjacency, b), k - 1)

NoRepeat(s) == \A i, j \in DOMAIN s : s[i] = s[j] => i = j

Running == [visited |-> visited, dist |-> min_dist_from_source,
            q |-> q, err |-> "none"]

\* While a run is in progress, the ids in the queue and the ids the rest of
\* the run appends to it are pairwise distinct, and the queue is empty after
\* at most one iteration per id of the index.
C12_EnqueuedOnce ==
    pc = "running" =>
        /\ NoRepeat(q \o Enqueued(adj, Running, Size(hash_table)))
        /\ QueueAfter(adj, Running, Size(hash_table)) = <<>>

\* C12: run(source) terminates on every graph of the store and from every
\* traversal state: a run in progress leads to an empty queue, and no id
\* is enqueued twice during one run.
C12_RunTerminates ==
    /\ []C12_EnqueuedOnce
    /\ (pc = "running") ~> (pc = "idle" /\ q = <<>>)

\* A run returned, started on the uncleared result of an earlier run, whose
\* source has two parallel edges to an id that the run reached.
C12_Witness ==
    /\ RunReturned
    /\ ~last.idle
    /\ q = <<>>
    /\ \E j, k \in DOMAIN adj[SourceId] :
          /\ j # k
          /\ adj[SourceId][j][1] = adj[SourceId][k][1]
          /\ adj[SourceId][j][1] # SourceId
          /\ min_dist_from_source[adj[SourceId][j][1]] = 1

\* A step of a run: the one that enters it or one iteration of its loop.
RunStepOrEntry ==
    last'.op = "run" /\ last'.err = "none" /\ (pc = "running" \/ pc' = "running")

\* Every step of a run keeps each visited id visited and, the source
\* apart, at its distance; the source is at distance 0.
C13_Step ==
    RunStepOrEntry =>
        LET s == IdAfter(last'.args[1]) IN
        /\ min_dist_from_source'[s] = 0
        /\ \A i \in Ids :
              visited[i] => /\ visited'[i]
                            /\ i # s =>
                                 min_dist_from_source'[i] = min_dist_from_source[i]

\* No id that is visited at some point of a run is enqueued by the rest of
\* that run; on entry the visited ids other than the source are the ones
\* the earlier runs visited.
C13_NotEnqueuedAgain ==
    pc = "running" =>
        LET e == Enqueued(adj, Running, Size(hash_table))
        IN  \A k \in DOMAIN e : ~visited[e[k]]

\* C13: a run started on the result of an earlier run, with no clear in
\* between, keeps every id the earlier run visited as visited and, the new
\* source apart, at its earlier distance, and does not enqueue it again;
\* the new source gets distance 0.
C13_RunKeepsEarlierResult ==
    []C13_NotEnqueuedAgain /\ [][C13_Step]_vars

\* A second run returned with no clear in between, and an id other than its
\* source is visited at a distance that is not its hop distance from that
\* source.
C13_Witness ==
    /\ RunReturned
    /\ ~last.idle
    /\ \E i \in Ids \ {SourceId} :
          /\ visited[i]
          /\ min_dist_from_source[i] # Hops(adj, SourceId, i)
          /\ Hops(adj, SourceId, i) = 1

\* The operations of the traversal.
TraversalOps == {"clear", "run", "min_dist", "is_visited"}

\* C14: no step of clear, run, min_dist or is_visited changes the store's
\* adjacency lists, node count or direction; min_dist and is_visited
\* change no visited flag and no distance; a traversal call changes the
\* index, if at all, by adding one entry, which clear and the iterations of
\* a run never do.
C14_TraversalFrame ==
    [][last'.op \in TraversalOps =>
        /\ adj' = adj /\ n' = n /\ is_directed' = is_directed
        /\ last'.op \in {"min_dist", "is_visited"} =>
              visited' = visited /\ min_dist_from_source' = min_dist_from_source
        /\ \A k \in DOMAIN hash_table :
              k \in DOMAIN hash_table' /\ hash_table'[k] = hash_table[k]
        /\ Size(hash_table') - Size(hash_table) \in {0, 1}
        /\ (last'.op = "clear" \/ pc = "running") => hash_table' = hash_table
    ]_vars

\* is_visited minted an id for its key in a store that holds edges, after
\* a run that was not cleared.
C14_Witness ==
    /\ last.op = "is_visited"
    /\ last.err = "none"
    /\ last.minted = 1
    /\ ~last.idle
    /\ entries(adj) > 0

\* C15: in every state, between calls and between the iterations of a run,
\* each id is visited exactly when its distance is not -1, and no distance
\* is less than -1.
C15_VisitedIffDistance ==
    \A i \in Ids :
        /\ visited[i] <=> min_dist_from_source[i] # -1
        /\ min_dist_from_source[i] >= -1

\* Inside a run started without a clear after an earlier one: an id is
\* queued at distance 1 and an id of the index is not visited.
C15_Witness ==
    /\ pc = "running"
    /\ ~last.idle
    /\ min_dist_from_source[Head(q)] = 1
    /\ \E i, j \in Ids :
          /\ visited[i] /\ min_dist_from_source[i] = 1
          /\ j \in {hash_table[k] : k \in DOMAIN hash_table}
          /\ ~visited[j] /\ min_dist_from_source[j] = -1

\* Inside a run that started Idle.
RunningFromIdle == pc = "running" /\ last.op = "run" /\ last.idle

\* The queue of a run that started Idle holds visited, pairwise distinct
\* ids in non-decreasing order of distance, the last at most 1 farther than
\* the first.
C16_Queue ==
    RunningFromIdle =>
        /\ \A k \in DOMAIN q : visited[q[k]]
        /\ NoRepeat(q)
        /\ \A k, m \in DOMAIN q :
              k < m => min_dist_from_source[q[k]] <= min_dist_from_source[q[m]]
        /\ min_dist_from_source[q[Len(q)]] - min_dist_from_source[Head(q)] <= 1

\* The id an iteration leaves at the front of the queue is no nearer than
\* the id the iteration dequeued.
C16_Dequeue ==
    (RunningFromIdle /\ pc' = "running") =>
        min_dist_from_source'[Head(q')] >= min_dist_from_source[Head(q)]

\* C16: at every step of a run started Idle the queued ids are visited,
\* pairwise distinct and ordered by non-decreasing distance, with the last
\* at most 1 farther than the first; ids are dequeued in non-decreasing
\* order of distance.
C16_QueueOrdered ==
    []C16_Queue /\ [][C16_Dequeue]_vars

\* Inside a run started Idle, the queue holds an id at distance 1 in front
\* of an id at distance 2.
C16_Witness ==
    /\ RunningFromIdle
    /\ Len(q) = 2
    /\ min_dist_from_source[q[1]] = 1
    /\ min_dist_from_source[q[2]] = 2

\* The number of entries (v, w) in the adjacency list of u.
Count(u, v, w) == Cardinality({j \in DOMAIN adj[u] : adj[u][j] = <<v, w>>})

\* The index and the distances after clear(); run(a) in the current state.
AfterClearRun(a) ==
    LET h == hash(hash_table, a)
        c == clear([visited |-> visited, dist |-> min_dist_from_source])
        r == run_internal(adj, c.visited, c.dist, h.id)
    IN  [table |-> h.table, dist |-> r.dist]

\* C17: in every state of an undirected store, for all ids u # v and every
\* weight w the list of u holds (v, w) as often as the list of v holds
\* (u, w); and for all keys a and b, min_dist(b) after clear(); run(a)
\* equals min_dist(a) after clear(); run(b).
C17_UndirectedSymmetric ==
    ~is_directed =>
        /\ \A u, v \in Ids, w \in Weights :
              u # v => Count(u, v, w) = Count(v, u, w)
        /\ pc = "idle" =>
              LET after == [a \in NodeKeys |-> AfterClearRun(a)] IN
              \A a, b \in NodeKeys :
                  min_dist(after[a].table, after[a].dist, b).ret
                      = min_dist(after[b].table, after[b].dist, a).ret

\* An undirected store after an add_edge that returned, holding an edge of
\* weight 5 and an edge of the default weight between different ids, in which
\* a run after a clear reaches an id at distance 2.
C17_Witness ==
    /\ ~is_directed
    /\ Returned("add_edge")
    /\ \E u, v \in Ids, w \in Weights \ {DefaultWeight} :
          u # v /\ Count(u, v, w) = 1 /\ Count(v, u, w) = 1
    /\ \E u, v \in Ids : u # v /\ Count(u, v, DefaultWeight) = 1
    /\ \E a, b \in NodeKeys :
          min_dist(AfterClearRun(a).table, AfterClearRun(a).dist, b).ret = 2

\* The traversal's program: edges of the default weight are added, and the
\* traversal is cleared, run and queried, in any order.
Next ==
    \/ \E u \in NodeKeys, v \in NodeKeys : AddEdge(u, v, DefaultWeight)
    \/ Clear
    \/ \E s \in NodeKeys : Run(s)
    \/ RunStep
    \/ \E t \in NodeKeys : MinDist(t)
    \/ \E t \in NodeKeys : IsVisited(t)

Spec == Init /\ [][Next]_vars

\* The traversal's program with its scheduling: a run in progress keeps
\* iterating, since the call is one thread of control and nothing else can
\* run until it returns.
NextLive ==
    \/ \E u \in NodeKeys, v \in NodeKeys : AddEdge(u, v, DefaultWeight)
    \/ Clear
    \/ \E s \in NodeKeys : Run(s)
    \/ RunStep
    \/ \E t \in NodeKeys : MinDist(t)

SpecLive == Init /\ [][NextLive]_vars /\ WF_vars(RunStep)

\* The index's program: keys of every shape are looked up.
NextHash ==
    \/ \E x \in Keys : HashCall(x)
    \/ \E a \in GraphHashArgs : GraphHash(a[1], a[2], a[3])

SpecHash == Init /\ [][NextHash]_vars

\* The store's program: edges of every weight are added between keys of
\* every shape.
NextStore == \E u \in StoreKeys, v \in StoreKeys, w \in Weights : AddEdge(u, v, w)

SpecStore == Init /\ [][NextStore]_vars

\* The queue's program: up to MaxQueueEdges edges among four nodes, then
\* runs.
NextQueue ==
    \/ \E e \in QueueEdges : AddEdgeWithin(MaxQueueEdges, e[1], e[2], DefaultWeight)
    \/ \E s \in QueueKeys : Run(s)
    \/ RunStep

SpecQueue == Init /\ [][NextQueue]_vars

\* The weighted program: edges of every weight are added and the traversal
\* is cleared and run.
NextWeighted ==
    \/ \E u \in NodeKeys, v \in NodeKeys, w \in Weights : AddEdge(u, v, w)
    \/ Clear
    \/ \E s \in NodeKeys : Run(s)
    \/ RunStep

SpecWeighted == Init /\ [][NextWeighted]_vars

=============================================================================
